---- MODULE Spec2Model ----
(***************************************************************************)
(* Model of the Quant lifecycle orchestrator (src/quant/quant.py).         *)
(*                                                                         *)
(* One Quant instance, one main thread.  The main thread is either outside *)
(* every method (pc = "idle"), at one of the statements of initialize(),   *)
(* inside one of the blocking run_until_complete() waits of the bootstrap, *)
(* or inside loop.run_forever() of start().  While the main thread is in   *)
(* the scheduler, scheduler callbacks (the heartbeat tick, any callback    *)
(* that calls stop()) run between iterations; the interrupt handler that   *)
(* start() installs runs whenever the signal is delivered.                 *)
(***************************************************************************)
EXTENDS Naturals, FiniteSets, Sequences, TLC

\* ---------------------------------------------------------------- bounds
MaxInitCalls  == 2      \* calls of initialize() explored
MaxStopCalls  == 2      \* calls of stop() explored

\* ---------------------------------------------------------------- values
\* an unset handle (self.loop = None, self.event_center = None)
None == 0

\* the scheduler asyncio.get_event_loop() hands out in the main thread
CurrentLoop == 1

\* a configuration section: missing from the store, or filled in
Absent == "absent"

SectionValues == {Absent, "set"}

\* the http_server section may also be filled in without a "port" key
HttpSectionValues == SectionValues \cup {"noport"}

\* mutant: every section counts as configured
TruthyAlways(v) == TRUE

\* the test `if config.<section>:` of a section
Truthy(v) == v # Absent

\* what a configuration source may be
Sources == {"valid", "malformed", "missing"}

\* the statements of initialize(): the six steps of the contract in its
\* order, with the configuration load where the code has it
Steps == <<"loop", "load", "logger", "db", "ec", "http", "heartbeat">>

StepNames == {Steps[i] : i \in 1..Len(Steps)}

StepIndex(s) == CHOOSE i \in 1..Len(Steps) : Steps[i] = s

\* positions inside a step that blocks on the scheduler
WaitPcs == {"ec_connect", "http_setup", "http_site"}

\* positions at which the scheduler is iterating
LoopPcs == WaitPcs \cup {"run_forever"}

AllSectionsAbsent == [mongodb |-> Absent, rabbitmq |-> Absent, http_server |-> Absent]

Configs == [mongodb : SectionValues, rabbitmq : SectionValues,
            http_server : HttpSectionValues]

NoCalls == [db |-> 0, ec |-> 0, bus |-> 0, connected |-> 0, phase2 |-> 0,
            setup |-> 0, bind |-> 0, hb |-> 0, waitLoop |-> None,
            port |-> None]

\* the port a complete http_server section names
ConfiguredPort == 8080

\* port = config.http_server.get("port"): None when the section has no port
PortOf(section) == IF section = "noport" THEN None ELSE ConfiguredPort

\* the delay of the heartbeat timer, in tenths of a second (0.5)
HeartbeatDelay == 5

\* over the instance's life nothing is made yet
NothingMade == [ec |-> 0, db |-> 0, phase2 |-> 0, ports |-> 0, hb |-> 0,
                hbDelay |-> 0, hbLoop |-> None]

NoArg == [src |-> "none", sections |-> AllSectionsAbsent]

VARIABLES
    loop,          \* Quant.loop: None or the scheduler handle
    event_center,  \* Quant.event_center: None or the n-th EventCenter made
    config,        \* the process-wide configuration store (its sections)
    arg,           \* initialize()'s argument: the source and what it holds
    pc,            \* where the main thread is
    stopping,      \* the scheduler's stop request (loop._stopping)
    handler,       \* the SIGINT disposition: "default" or "keyboard_interrupt"
    step,          \* per statement of the current initialize(): its status
    err,           \* the error the last public call raised to its caller
    result,        \* the current/last initialize(): "none", "running", "ok",
                   \* or the error it raised
    calls,         \* per run of initialize(): collaborator calls attempted
    made,          \* over the instance's life: collaborator effects
    ticked,        \* the heartbeat tick has been invoked
    life,          \* "new"; "started" once start() was called; "stopped"
                   \* once run_forever() has returned
    initCalls,     \* calls of initialize() so far
    stopCalls,     \* calls of stop() so far
    interrupted,   \* the interrupt signal has been delivered
    sched          \* how far the scheduler has run: "never"; "waited" once it
                   \* iterated inside a run_until_complete(); "ran" once
                   \* run_forever() was entered

vars == <<loop, event_center, config, arg, pc, stopping, handler, step, err,
          result, calls, made, ticked, life, initCalls, stopCalls, interrupted,
          sched>>

\* the scheduler self.loop.run_until_complete(connect()) waits on
EcWaitLoop == loop

\* the scheduler asyncio.get_event_loop().run_until_complete(...) waits on
HttpWaitLoop == CurrentLoop

\* the scheduler self.loop.call_later(...) registers the heartbeat on
HeartbeatLoop == loop

\* mutant: the constructor acquires the scheduler eagerly
LoopAtConstructionEager == CurrentLoop

\* self.loop as __init__ leaves it
LoopAtConstruction == None

\* Quant.__init__ : both handles unset; nothing loaded, nothing scheduled
Init ==
    /\ loop = LoopAtConstruction
    /\ event_center = None
    /\ config = AllSectionsAbsent
    /\ arg = NoArg
    /\ pc = "idle"
    /\ stopping = FALSE
    /\ handler = "default"
    /\ step = [s \in StepNames |-> "pending"]
    /\ err = "none"
    /\ result = "none"
    /\ calls = NoCalls
    /\ made = NothingMade
    /\ ticked = FALSE
    /\ life = "new"
    /\ initCalls = 0
    /\ stopCalls = 0
    /\ interrupted = FALSE
    /\ sched = "never"

\* ------------------------------------------------------------ initialize
\* mutant: _init_http_server() is called before _init_event_center()
NextStepHttpBeforeEc(s) ==
    CASE s = "loop"      -> "load"
      [] s = "load"      -> "logger"
      [] s = "logger"    -> "db"
      [] s = "db"        -> "http"
      [] s = "http"      -> "ec"
      [] s = "ec"        -> "heartbeat"
      [] s = "heartbeat" -> "idle"

\* mutant: _init_logger() is called before _load_settings()
NextStepLoggerBeforeLoad(s) ==
    CASE s = "loop"      -> "logger"
      [] s = "logger"    -> "load"
      [] s = "load"      -> "db"
      [] s = "db"        -> "ec"
      [] s = "ec"        -> "http"
      [] s = "http"      -> "heartbeat"
      [] s = "heartbeat" -> "idle"

\* mutant: _init_http_server() is called before _init_db_instance()
NextStepHttpBeforeDb(s) ==
    CASE s = "loop"      -> "load"
      [] s = "load"      -> "logger"
      [] s = "logger"    -> "http"
      [] s = "http"      -> "db"
      [] s = "db"        -> "ec"
      [] s = "ec"        -> "heartbeat"
      [] s = "heartbeat" -> "idle"

\* mutant: _init_db_instance() is called before _load_settings()
NextStepDbBeforeLoad(s) ==
    CASE s = "loop"      -> "db"
      [] s = "db"        -> "load"
      [] s = "load"      -> "logger"
      [] s = "logger"    -> "ec"
      [] s = "ec"        -> "http"
      [] s = "http"      -> "heartbeat"
      [] s = "heartbeat" -> "idle"

\* mutant: _do_heartbeat() is called before _init_http_server()
NextStepHeartbeatBeforeHttp(s) ==
    CASE s = "loop"      -> "load"
      [] s = "load"      -> "logger"
      [] s = "logger"    -> "db"
      [] s = "db"        -> "ec"
      [] s = "ec"        -> "heartbeat"
      [] s = "heartbeat" -> "http"
      [] s = "http"      -> "idle"

\* mutant: _do_heartbeat() is called before _init_event_center()
NextStepHeartbeatBeforeEc(s) ==
    CASE s = "loop"      -> "load"
      [] s = "load"      -> "logger"
      [] s = "logger"    -> "db"
      [] s = "db"        -> "heartbeat"
      [] s = "heartbeat" -> "ec"
      [] s = "ec"        -> "http"
      [] s = "http"      -> "idle"

\* the statement initialize() executes after statement s; "idle" = return
NextStep(s) ==
    CASE s = "loop"      -> "load"
      [] s = "load"      -> "logger"
      [] s = "logger"    -> "db"
      [] s = "db"        -> "ec"
      [] s = "ec"        -> "http"
      [] s = "http"      -> "heartbeat"
      [] s = "heartbeat" -> "idle"

\* statement s ends with the given status and initialize() goes on
Advance(s, status) ==
    /\ step' = [step EXCEPT ![s] = status]
    /\ pc' = NextStep(s)
    /\ result' = IF NextStep(s) = "idle" THEN "ok" ELSE result

\* statement s raises e: nothing in initialize() catches it, so it unwinds
\* to the caller
Raise(s, e) ==
    /\ step' = [step EXCEPT ![s] = "failed"]
    /\ pc' = "idle"
    /\ err' = e
    /\ result' = e

\* the heartbeat tick, when the scheduler iteration invokes it; the
\* iteration belongs to a run_until_complete() wait or to run_forever()
TickPart(fire) ==
    /\ fire => made.hb > 0
    /\ ticked' = (ticked \/ fire)
    /\ sched' = IF sched = "never" THEN "waited" ELSE sched

\* the caller calls initialize(config_module)
InitializeCall ==
    /\ pc = "idle"
    /\ initCalls < MaxInitCalls
    /\ \E src \in Sources, secs \in Configs :
          /\ (src # "valid" => secs = AllSectionsAbsent)
          /\ arg' = [src |-> src, sections |-> secs]
    /\ initCalls' = initCalls + 1
    /\ pc' = "loop"
    /\ err' = "none"
    /\ result' = "running"
    /\ step' = [s \in StepNames |-> "pending"]
    /\ calls' = NoCalls
    /\ UNCHANGED <<loop, event_center, config, stopping, handler, made, ticked,
                   life, stopCalls, interrupted, sched>>

\* mutant: a new scheduler is made on every access
AcquireLoopAlwaysNew == loop + 1

\* the handle _get_event_loop() leaves in self.loop
AcquireLoop == IF loop = None THEN CurrentLoop ELSE loop

\* self._get_event_loop()
GetEventLoop ==
    /\ pc = "loop"
    /\ loop' = AcquireLoop
    /\ Advance("loop", "done")
    /\ UNCHANGED <<event_center, config, arg, stopping, handler, err, calls,
                   made, ticked, life, initCalls, stopCalls, interrupted, sched>>

\* what config.loads(source) does with a source
LoadOutcome(src) == IF src = "valid" THEN "loaded" ELSE "ConfigError"

\* self._load_settings(config_module)
LoadSettings ==
    /\ pc = "load"
    /\ IF LoadOutcome(arg.src) = "loaded"
          THEN /\ config' = arg.sections
               /\ Advance("load", "done")
               /\ UNCHANGED err
          ELSE /\ Raise("load", LoadOutcome(arg.src))
               /\ UNCHANGED config
    /\ arg' = [arg EXCEPT !.sections = AllSectionsAbsent]
    /\ UNCHANGED <<loop, event_center, stopping, handler, calls, made, ticked,
                   life, initCalls, stopCalls, interrupted, sched>>

\* self._init_logger()
InitLogger ==
    /\ pc = "logger"
    /\ Advance("logger", "done")
    /\ UNCHANGED <<loop, event_center, config, arg, stopping, handler, err,
                   calls, made, ticked, life, initCalls, stopCalls, interrupted, sched>>

\* mutant: the database failure is recorded and the bootstrap goes on
DbConnectFailedSwallowed ==
    /\ Advance("db", "failed")
    /\ UNCHANGED err

\* initMongodb(**config.mongodb) raises: _init_db_instance has no handler
DbConnectFailed == Raise("db", "ConnectionError")

\* self._init_db_instance()
InitDbInstance ==
    /\ pc = "db"
    /\ IF Truthy(config.mongodb)
          THEN /\ calls' = [calls EXCEPT !.db = @ + 1]
               /\ \E ok \in BOOLEAN :
                     IF ok THEN /\ made' = [made EXCEPT !.db = @ + 1]
                                /\ Advance("db", "done")
                                /\ UNCHANGED err
                           ELSE /\ DbConnectFailed
                                /\ UNCHANGED made
          ELSE /\ Advance("db", "skipped")
               /\ UNCHANGED <<calls, made, err>>
    /\ UNCHANGED <<loop, event_center, config, arg, stopping, handler, ticked,
                   life, initCalls, stopCalls, interrupted, sched>>

\* mutant: the handle is assigned only once the connect has returned
HandleNotYetAssigned == event_center

\* self.event_center right after `self.event_center = EventCenter()`
NewEventCenter == made.ec + 1

\* self._init_event_center(), up to the start of the blocking connect
InitEventCenter ==
    /\ pc = "ec"
    /\ IF Truthy(config.rabbitmq)
          THEN /\ event_center' = NewEventCenter
               /\ made' = [made EXCEPT !.ec = @ + 1]
               /\ calls' = [calls EXCEPT !.ec = @ + 1, !.bus = @ + 1,
                                         !.waitLoop = EcWaitLoop]
               /\ step' = [step EXCEPT !["ec"] = "active"]
               /\ pc' = "ec_connect"
               /\ UNCHANGED result
          ELSE /\ Advance("ec", "skipped")
               /\ UNCHANGED <<event_center, made, calls>>
    /\ UNCHANGED <<loop, config, arg, stopping, handler, err, ticked,
                   life, initCalls, stopCalls, interrupted, sched>>

\* mutant: config.initialize() is left out after the connect
ConnectOkSkipsPhase2 ==
    /\ step' = [step EXCEPT !["ec"] = "done"]
    /\ pc' = "http"
    /\ calls' = [calls EXCEPT !.connected = @ + 1]
    /\ UNCHANGED <<err, result>>

\* run_until_complete(connect()) returns: the next statement is
\* config.initialize()
ConnectOk ==
    /\ pc' = "ec_phase2"
    /\ calls' = [calls EXCEPT !.connected = @ + 1]
    /\ UNCHANGED <<step, err, result>>

\* mutant: the connect failure is caught and the bootstrap goes on
ConnectFailedSwallowed ==
    /\ pc' = "ec_phase2"
    /\ UNCHANGED <<step, err, result, calls>>

\* run_until_complete(connect()) raises what connect() raised:
\* _init_event_center has no handler
ConnectFailed ==
    /\ Raise("ec", "ConnectionError")
    /\ UNCHANGED calls

\* one scheduler iteration inside self.loop.run_until_complete(connect())
EcConnectIteration ==
    /\ pc = "ec_connect"
    /\ \E outcome \in {"pending", "ok", "fail"}, fire \in BOOLEAN :
          /\ TickPart(fire)
          /\ CASE outcome = "ok" ->
                    /\ stopping' = FALSE
                    /\ ConnectOk
               [] outcome = "fail" ->
                    /\ stopping' = FALSE
                    /\ ConnectFailed
               [] outcome = "pending" ->
                    /\ UNCHANGED calls
                    /\ IF stopping
                          THEN /\ stopping' = FALSE
                               /\ Raise("ec", "RuntimeError")
                          ELSE UNCHANGED <<stopping, pc, step, err, result>>
    /\ UNCHANGED <<loop, event_center, config, arg, handler, made,
                   life, initCalls, stopCalls, interrupted>>

\* config.initialize(), the dependent step after the connect
Phase2 ==
    /\ pc = "ec_phase2"
    /\ calls' = [calls EXCEPT !.phase2 = @ + 1]
    /\ made' = [made EXCEPT !.phase2 = @ + 1]
    /\ Advance("ec", "done")
    /\ UNCHANGED <<loop, event_center, config, arg, stopping, handler, err,
                   ticked, life, initCalls, stopCalls, interrupted, sched>>

\* self._init_http_server(), up to the start of runner.setup()
InitHttpServer ==
    /\ pc = "http"
    /\ IF ~Truthy(config.http_server)
          THEN /\ Advance("http", "skipped")
               /\ UNCHANGED <<calls, err>>
          ELSE \E resolved \in BOOLEAN :
                  IF resolved
                     THEN /\ calls' = [calls EXCEPT !.setup = @ + 1,
                                                     !.waitLoop = HttpWaitLoop]
                          /\ step' = [step EXCEPT !["http"] = "active"]
                          /\ pc' = "http_setup"
                          /\ UNCHANGED <<err, result>>
                     ELSE /\ Raise("http", "ResolutionError")
                          /\ UNCHANGED calls
    /\ UNCHANGED <<loop, event_center, config, arg, stopping, handler, made,
                   ticked, life, initCalls, stopCalls, interrupted, sched>>

\* one scheduler iteration inside run_until_complete(runner.setup())
HttpSetupIteration ==
    /\ pc = "http_setup"
    /\ \E outcome \in {"pending", "ok", "fail"}, fire \in BOOLEAN :
          /\ TickPart(fire)
          /\ CASE outcome = "ok" ->
                    /\ stopping' = FALSE
                    /\ pc' = "http_site"
                    /\ calls' = [calls EXCEPT
                                    !.bind = @ + 1,
                                    !.port = PortOf(config.http_server),
                                    !.waitLoop = HttpWaitLoop]
                    /\ UNCHANGED <<step, err, result>>
               [] outcome = "fail" ->
                    /\ stopping' = FALSE
                    /\ Raise("http", "SetupError")
                    /\ UNCHANGED calls
               [] outcome = "pending" ->
                    /\ UNCHANGED calls
                    /\ IF stopping
                          THEN /\ stopping' = FALSE
                               /\ Raise("http", "RuntimeError")
                          ELSE UNCHANGED <<stopping, pc, step, err, result>>
    /\ UNCHANGED <<loop, event_center, config, arg, handler, made,
                   life, initCalls, stopCalls, interrupted>>

\* one scheduler iteration inside run_until_complete(site.start())
HttpSiteIteration ==
    /\ pc = "http_site"
    /\ \E outcome \in {"pending", "ok", "fail"}, fire \in BOOLEAN :
          /\ TickPart(fire)
          /\ CASE outcome = "ok" ->
                    /\ stopping' = FALSE
                    /\ made' = [made EXCEPT !.ports = @ + 1]
                    /\ Advance("http", "done")
                    /\ UNCHANGED err
               [] outcome = "fail" ->
                    /\ stopping' = FALSE
                    /\ Raise("http", "BindError")
                    /\ UNCHANGED made
               [] outcome = "pending" ->
                    /\ UNCHANGED made
                    /\ IF stopping
                          THEN /\ stopping' = FALSE
                               /\ Raise("http", "RuntimeError")
                          ELSE UNCHANGED <<stopping, pc, step, err, result>>
    /\ UNCHANGED <<loop, event_center, config, arg, handler, calls,
                   life, initCalls, stopCalls, interrupted>>

\* self._do_heartbeat()
DoHeartbeat ==
    /\ pc = "heartbeat"
    /\ calls' = [calls EXCEPT !.hb = @ + 1]
    /\ made' = [made EXCEPT !.hb = @ + 1, !.hbDelay = HeartbeatDelay,
                             !.hbLoop = HeartbeatLoop]
    /\ Advance("heartbeat", "done")
    /\ UNCHANGED <<loop, event_center, config, arg, stopping, handler, err,
                   ticked, life, initCalls, stopCalls, interrupted, sched>>

\* ------------------------------------------------------------ start, stop
\* the caller calls start()
Start ==
    /\ pc = "idle"
    /\ life' = IF life = "new" THEN "started" ELSE life
    /\ handler' = "keyboard_interrupt"
    /\ IF loop = None
          THEN /\ err' = "AttributeError"
               /\ pc' = "idle"
               /\ UNCHANGED sched
          ELSE /\ err' = "none"
               /\ pc' = "run_forever"
               /\ sched' = "ran"
    /\ UNCHANGED <<loop, event_center, config, arg, stopping, step, result,
                   calls, made, ticked, initCalls, stopCalls, interrupted>>

\* one scheduler iteration inside self.loop.run_forever()
RunForeverIteration ==
    /\ pc = "run_forever"
    /\ \E fire \in BOOLEAN : TickPart(fire)
    /\ IF stopping
          THEN /\ pc' = "idle"
               /\ stopping' = FALSE
               /\ life' = "stopped"
          ELSE UNCHANGED <<pc, stopping, life>>
    /\ UNCHANGED <<loop, event_center, config, arg, handler, step, err, result,
                   calls, made, initCalls, stopCalls, interrupted>>

\* mutant: stop() flips the stop request instead of setting it
LoopStopToggle == ~stopping

\* mutant: stop() leaves the stop request as it is
LoopStopForgotten == stopping

\* what self.loop.stop() does to the stop request
LoopStop == TRUE

\* mutant: stopping also drops the scheduler handle
StopDropsLoop ==
    /\ loop' = None
    /\ UNCHANGED <<event_center, made>>

\* mutant: stopping also drops the event-bus client
StopDropsEventCenter ==
    /\ event_center' = None
    /\ UNCHANGED <<loop, made>>

\* stop() and keyboard_interrupt() release nothing: the handles and what
\* the bootstrap made stay as they are
NoCleanup == UNCHANGED <<loop, event_center, made>>

\* the caller calls stop()
Stop ==
    /\ pc = "idle"
    /\ stopCalls < MaxStopCalls
    /\ stopCalls' = stopCalls + 1
    /\ IF loop = None
          THEN /\ err' = "AttributeError"
               /\ UNCHANGED stopping
          ELSE /\ err' = "none"
               /\ stopping' = LoopStop
    /\ NoCleanup
    /\ UNCHANGED <<config, arg, pc, handler, step, result,
                   calls, ticked, life, initCalls, interrupted, sched>>

\* a scheduler callback calls stop() while the scheduler iterates
StopFromCallback ==
    /\ pc \in LoopPcs
    /\ stopCalls < MaxStopCalls
    /\ stopCalls' = stopCalls + 1
    /\ stopping' = LoopStop
    /\ NoCleanup
    /\ UNCHANGED <<config, arg, pc, handler, step, err,
                   result, calls, ticked, life, initCalls, interrupted, sched>>

\* SIGINT is delivered and keyboard_interrupt(s, f) runs in the main thread
Signal ==
    /\ handler = "keyboard_interrupt"
    /\ interrupted' = TRUE
    /\ IF loop = None
          THEN /\ UNCHANGED stopping
               /\ IF pc = "loop"
                     THEN Raise("loop", "AttributeError")
                     ELSE /\ err' = "AttributeError"
                          /\ UNCHANGED <<pc, step, result>>
          ELSE /\ stopping' = LoopStop
               /\ UNCHANGED <<pc, step, err, result>>
    /\ NoCleanup
    /\ UNCHANGED <<config, arg, handler, calls,
                   ticked, life, initCalls, stopCalls, sched>>

Next ==
    \/ InitializeCall
    \/ GetEventLoop
    \/ LoadSettings
    \/ InitLogger
    \/ InitDbInstance
    \/ InitEventCenter
    \/ EcConnectIteration
    \/ Phase2
    \/ InitHttpServer
    \/ HttpSetupIteration
    \/ HttpSiteIteration
    \/ DoHeartbeat
    \/ Start
    \/ RunForeverIteration
    \/ Stop
    \/ StopFromCallback
    \/ Signal

Spec == Init /\ [][Next]_vars

\* The main thread is sequential: once a statement of initialize() that does
\* not wait on the scheduler is reached, the interpreter executes it.  The
\* scheduler waits and the caller's next call carry no such guarantee.
\* At most one of these statements is enabled at a time (one pc), so one
\* fairness condition on their disjunction covers each of them.
FairSpec ==
    /\ Spec
    /\ WF_vars(GetEventLoop \/ LoadSettings \/ InitLogger \/ InitDbInstance
                 \/ InitEventCenter \/ Phase2 \/ InitHttpServer
                 \/ DoHeartbeat)

Errors == {"ConfigError", "ConnectionError", "RuntimeError", "ResolutionError",
           "SetupError", "BindError", "AttributeError"}

TypeOK ==
    /\ loop \in {None, CurrentLoop}
    /\ made.hbDelay \in {0, HeartbeatDelay}
    /\ event_center \in 0..MaxInitCalls
    /\ config \in Configs
    /\ pc \in {"idle"} \cup StepNames \cup LoopPcs \cup {"ec_phase2"}
    /\ stopping \in BOOLEAN
    /\ handler \in {"default", "keyboard_interrupt"}
    /\ step \in [StepNames -> {"pending", "active", "done", "skipped", "failed"}]
    /\ result \in {"none", "running", "ok"} \cup Errors
    /\ ticked \in BOOLEAN
    /\ interrupted \in BOOLEAN
    /\ sched \in {"never", "waited", "ran"}
    /\ err \in {"none"} \cup Errors
    /\ life \in {"new", "started", "stopped"}

\* ================================================================ claims
\* the six bootstrap steps of the contract, in its order
SixSteps == <<"loop", "logger", "db", "ec", "http", "heartbeat">>

Settled(s) == step[s] \in {"done", "skipped"}

\* the step the main thread is in, "none" outside initialize()
StepOfPc ==
    CASE pc \in {"ec_connect", "ec_phase2"} -> "ec"
      [] pc \in {"http_setup", "http_site"} -> "http"
      [] pc \in StepNames -> pc
      [] OTHER -> "none"

\* the configuration of the current run of initialize() is loaded
LoadedThisRun == step["load"] = "done"

\* C1: in every run of initialize() the six steps run in the order scheduler
\* handle, logging, database, event bus (with its post-connect step), HTTP
\* server, heartbeat: a step has begun only if every earlier step is done or
\* skipped, every step after the one in progress is still pending, and at
\* most one step is in progress.
C1_StrictOrder ==
    /\ \A i \in 1..Len(SixSteps), j \in 1..Len(SixSteps) :
          (i < j /\ (step[SixSteps[j]] # "pending" \/ StepOfPc = SixSteps[j]))
             => Settled(SixSteps[i])
    /\ \A i \in 1..Len(SixSteps), j \in 1..Len(SixSteps) :
          (i < j /\ StepOfPc = SixSteps[i]) => step[SixSteps[j]] = "pending"
    /\ \A s \in StepNames : step[s] = "active" => StepOfPc = s
    /\ Cardinality({s \in StepNames : step[s] = "active"}) <= 1

\* C1 witness: a run in which all six steps executed and the run completed
C1_Witness ==
    /\ result = "ok" /\ pc = "idle"
    /\ \A i \in 1..Len(SixSteps) : step[SixSteps[i]] = "done"
    /\ calls.phase2 = 1 /\ calls.bind = 1 /\ calls.hb = 1

\* C2: when an optional section is absent from the loaded configuration, no
\* connect, setup or bind call of that subsystem is attempted in the run, no
\* handle is made for it (on a first initialize() it is still unset), the
\* step ends skipped and never failed, and a completed run has registered
\* the heartbeat.
C2_AbsentSkipped ==
    LoadedThisRun =>
      /\ config.mongodb = Absent =>
            /\ calls.db = 0
            /\ step["db"] \in {"pending", "skipped"}
            /\ initCalls = 1 => made.db = 0
      /\ config.rabbitmq = Absent =>
            /\ calls.ec = 0 /\ calls.bus = 0 /\ calls.phase2 = 0
            /\ step["ec"] \in {"pending", "skipped"}
            /\ initCalls = 1 => event_center = None
      /\ config.http_server = Absent =>
            /\ calls.setup = 0 /\ calls.bind = 0
            /\ step["http"] \in {"pending", "skipped"}
            /\ initCalls = 1 => made.ports = 0
      /\ (\A s \in {"db", "ec", "http"} : step[s] = "skipped")
            => result \in {"running", "ok"}
      /\ result = "ok" => (step["heartbeat"] = "done" /\ calls.hb = 1)

\* C2 witness: a first initialize() with all three sections absent returned
\* normally, every optional step skipped
C2_Witness ==
    /\ initCalls = 1 /\ pc = "idle" /\ result = "ok" /\ err = "none"
    /\ config = AllSectionsAbsent
    /\ \A s \in {"db", "ec", "http"} : step[s] = "skipped"
    /\ event_center = None /\ made.db = 0 /\ made.ports = 0
    /\ calls.hb = 1

\* C3: the event bus Phase 2 step (config.initialize()) runs only after the
\* Phase 1 connect of the same run succeeded: never when the connect failed,
\* never when the eventBus section is absent.
C3_Phase2OnlyAfterConnect ==
    /\ calls.phase2 <= calls.connected
    /\ pc = "ec_phase2" => calls.connected = 1
    /\ step["ec"] = "failed" => (calls.phase2 = 0 /\ calls.connected = 0)
    /\ (LoadedThisRun /\ config.rabbitmq = Absent) => calls.phase2 = 0
    /\ made.phase2 <= made.ec

\* C3 witness: the connect failed and initialize() aborted without Phase 2
C3_Witness ==
    /\ step["ec"] = "failed" /\ result = "ConnectionError" /\ pc = "idle"
    /\ calls.bus = 1 /\ calls.phase2 = 0

Frame == <<loop, event_center, config, arg, handler, step, result, calls,
           made, ticked, life, initCalls>>

\* C5: stop() called before start() raises no error and leaves the
\* orchestrator and the scheduler as they were (so that a later start()
\* blocks until a later stop or interrupt).
C5_StopBeforeStartNoOp ==
    [][(Stop /\ life = "new")
          => (err' = "none" /\ UNCHANGED <<stopping, pc>> /\ UNCHANGED Frame)]_vars

C7_ConfigErrorAborts ==
    /\ (arg.src \in {"malformed", "missing"} /\ step["load"] # "pending")
          => (step["load"] = "failed" /\ result = "ConfigError")
    /\ step["load"] = "failed"
          => /\ result = "ConfigError"
             /\ StepOfPc = "none"
             /\ \A s \in {"logger", "db", "ec", "http", "heartbeat"} :
                   step[s] = "pending"
             /\ calls = NoCalls
             /\ initCalls = 1 =>
                   /\ event_center = None
                   /\ made = NothingMade

\* C7 witness: a first initialize() with a malformed source has aborted
C7_Witness ==
    /\ initCalls = 1 /\ arg.src = "malformed" /\ pc = "idle"
    /\ step["load"] = "failed" /\ err = "ConfigError"
    /\ loop = CurrentLoop /\ event_center = None

\* C8: an interrupt delivered while start() is in the scheduler's run phase
\* sets the stop request without raising, and the scheduler iteration that
\* finds the stop request set returns start() to its caller with no error.
C8_InterruptStopsStart ==
    [][/\ (Signal /\ pc = "run_forever")
            => (stopping' /\ pc' = "run_forever" /\ err' = err)
       /\ (RunForeverIteration /\ stopping)
            => (pc' = "idle" /\ err' = "none" /\ ~stopping')]_vars

\* C8 witness: start() has returned after an interrupt and no stop() call
C8_Witness ==
    /\ life = "stopped" /\ pc = "idle" /\ err = "none"
    /\ interrupted /\ stopCalls = 0 /\ ~stopping

\* C9: a failed database or event-bus connect is raised to the caller of
\* initialize() after a single attempt, and no later bootstrap step (event
\* bus Phase 2, HTTP bootstrap, heartbeat registration) runs in that run.
C9_ConnectFailureAborts ==
    /\ step["db"] = "failed"
          => /\ result = "ConnectionError" /\ calls.db = 1
             /\ \A s \in {"ec", "http", "heartbeat"} : step[s] = "pending"
             /\ calls.ec = 0 /\ calls.bus = 0
    /\ (step["ec"] = "failed" /\ result = "ConnectionError")
          => /\ calls.bus = 1 /\ calls.connected = 0
             /\ \A s \in {"http", "heartbeat"} : step[s] = "pending"
    /\ (step["db"] = "failed" \/ step["ec"] = "failed")
          => /\ StepOfPc = "none"
             /\ result \in {"ConnectionError", "RuntimeError"}
             /\ calls.phase2 = 0 /\ calls.setup = 0 /\ calls.bind = 0
             /\ calls.hb = 0

\* C9 witness: the database connected, the event-bus connect failed, and
\* initialize() has aborted with the connection error
C9_Witness ==
    /\ step["db"] = "done" /\ step["ec"] = "failed" /\ pc = "idle"
    /\ err = "ConnectionError" /\ result = "ConnectionError"

\* C10: the HTTP bootstrap (and so the bind of the listening socket) begins
\* only once configuration load, logging, database and event bus are each
\* done or skipped; in a run where one of them failed no bind is attempted,
\* and on a first initialize() no port is open.
C10_BindAfterEarlierSteps ==
    /\ (step["http"] # "pending" \/ StepOfPc = "http" \/ calls.setup > 0
           \/ calls.bind > 0)
          => \A s \in {"loop", "load", "logger", "db", "ec"} : Settled(s)
    /\ (\E s \in {"loop", "load", "logger", "db", "ec"} : step[s] = "failed")
          => /\ step["http"] = "pending"
             /\ calls.setup = 0 /\ calls.bind = 0
             /\ initCalls = 1 => made.ports = 0
    /\ made.ports <= initCalls

\* C10 witness: the socket was bound after database and event bus came up
C10_Witness ==
    /\ initCalls = 1 /\ made.ports = 1 /\ step["http"] = "done"
    /\ step["db"] = "done" /\ step["ec"] = "done"

\* C11: once start() has been stopped by stop() or by the interrupt handler,
\* the scheduler of that instance is never in its run phase again, whatever
\* start(), stop() or signal events follow.
C11_StoppedIsTerminal == life = "stopped" => pc # "run_forever"

\* C12: there is one scheduler handle: unset until the first initialize()
\* reaches _get_event_loop, then the thread's current scheduler and never
\* replaced by any later initialize(), start(), stop() or signal; the
\* event-bus wait, the two HTTP waits and the heartbeat registration use
\* that same scheduler.
C12_OneSchedulerHandle ==
    /\ [](/\ loop \in {None, CurrentLoop}
          /\ initCalls = 0 => loop = None
          /\ step["loop"] = "done" => loop = CurrentLoop
          /\ pc \in WaitPcs => (loop # None /\ calls.waitLoop = loop)
          /\ calls.waitLoop \in {None, loop}
          /\ made.hb > 0 => (loop # None /\ made.hbLoop = loop))
    /\ [][loop # None => loop' = loop]_vars

\* C12 witness: a second initialize() has gone through both kinds of wait
\* and registered its heartbeat, still on the scheduler of the first one
C12_Witness ==
    /\ initCalls = 2 /\ result = "ok" /\ loop = CurrentLoop
    /\ calls.connected = 1 /\ calls.bind = 1 /\ calls.waitLoop = loop
    /\ made.hb = 2 /\ made.hbLoop = loop

\* C13 as stated: when initialize() has aborted with an error, the
\* scheduler has not iterated at any point, before or after the abort.
C13_NoSchedulerBeforeAbort == result \in Errors => sched = "never"

\* C13: up to the return of a first initialize(), normal or by an error, the
\* scheduler's run phase (run_forever) has not been entered; the scheduler
\* may have iterated inside the blocking waits of the bootstrap.
C13_NoRunPhaseBeforeAbort ==
    /\ [](initCalls = 0 => sched = "never")
    /\ []((initCalls = 1 /\ result = "running") => sched # "ran")
    /\ [][(initCalls = 1 /\ result = "running" /\ result' \in Errors)
            => (sched' # "ran" /\ pc' = "idle")]_vars

\* C13 witness: a first initialize() aborted at the bind, after the
\* scheduler iterated in the waits, and start() has not been called since
C13_Witness ==
    /\ initCalls = 1 /\ result = "BindError" /\ pc = "idle"
    /\ sched = "waited" /\ life = "new"

\* C14 as stated: the configuration is loaded before the scheduler handle
\* is acquired, so a failed load leaves the handle unset.
C14_LoadBeforeSchedulerHandle ==
    /\ (step["loop"] # "pending" \/ pc = "loop") => step["load"] = "done"
    /\ (step["load"] = "failed" /\ initCalls = 1) => loop = None

\* C14: the configuration load completes before logging, database, event
\* bus, HTTP server and heartbeat begin; the scheduler handle is acquired
\* before the load, so it is set when the load starts and when it fails.
C14_LoadBeforeDependentSteps ==
    /\ \A s \in {"logger", "db", "ec", "http", "heartbeat"} :
          (step[s] # "pending" \/ StepOfPc = s) => step["load"] = "done"
    /\ (step["load"] # "pending" \/ pc = "load")
          => (step["loop"] = "done" /\ loop = CurrentLoop)
    /\ pc = "loop" => step["load"] = "pending"

\* C14 witness: the load of a first initialize() failed on a missing source
\* with the scheduler handle already acquired
C14_Witness ==
    /\ initCalls = 1 /\ arg.src = "missing" /\ result = "ConfigError"
    /\ step["loop"] = "done" /\ step["load"] = "failed"
    /\ loop = CurrentLoop

\* C15: an initialize() that returns normally has registered one heartbeat
\* timer with delay 0.5, whatever sections are configured, and registered it
\* after every other step was done or skipped; an initialize() that aborts
\* has registered none; an orchestrator initialized once holds exactly one.
C15_OneHeartbeatLast ==
    /\ calls.hb <= 1 /\ made.hb <= initCalls
    /\ result = "ok"
          => /\ calls.hb = 1 /\ step["heartbeat"] = "done"
             /\ made.hbDelay = HeartbeatDelay
             /\ initCalls = 1 => made.hb = 1
    /\ (step["heartbeat"] # "pending" \/ pc = "heartbeat" \/ calls.hb > 0)
          => \A s \in StepNames \ {"heartbeat"} : Settled(s)
    /\ result \in Errors
          => /\ calls.hb = 0 /\ step["heartbeat"] = "pending"
             /\ initCalls = 1 => made.hb = 0
    /\ made.hb > 0 => made.hbDelay = HeartbeatDelay

\* C15 witness: a first initialize() with database and HTTP server
\* configured and no event bus returned with its one heartbeat registered
C15_Witness ==
    /\ initCalls = 1 /\ result = "ok" /\ pc = "idle"
    /\ config.mongodb = "set" /\ config.rabbitmq = Absent
    /\ config.http_server = "set"
    /\ calls.hb = 1 /\ made.hb = 1 /\ made.hbDelay = HeartbeatDelay
    /\ step["http"] = "done" /\ step["db"] = "done"

\* C16: stop() and the interrupt handler only request the scheduler to halt:
\* the scheduler handle, the event-bus handle, the bound HTTP server, the
\* database connection and the heartbeat registration (with whether it has
\* fired) are as they were, as are the configuration and the handler.
C16_StopOnlyHalts ==
    [][(Stop \/ StopFromCallback \/ Signal)
          => /\ UNCHANGED <<loop, event_center, made, ticked>>
             /\ UNCHANGED <<config, handler, calls, life, sched>>
             /\ loop # None => stopping']_vars

\* C16 witness: start() was stopped by an interrupt and by stop() with the
\* database, the event bus, the HTTP server and the heartbeat all still up
C16_Witness ==
    /\ life = "stopped" /\ pc = "idle" /\ interrupted /\ stopCalls > 0
    /\ loop = CurrentLoop /\ event_center # None
    /\ made.db = 1 /\ made.ports = 1 /\ made.hb = 1 /\ ~ticked

\* C17: with an http_server section that has no port, the HTTP bootstrap
\* aborts initialize(): no bind is attempted, the step does not complete,
\* the heartbeat is not registered and initialize() does not return normally.
C17_MissingPortAborts ==
    (LoadedThisRun /\ config.http_server = "noport")
       => /\ calls.bind = 0 /\ calls.hb = 0
          /\ step["http"] # "done" /\ step["heartbeat"] = "pending"
          /\ result # "ok"

\* C18 as stated: the event-bus handle is created at most once over any
\* sequence of operations, and once an initialize() has completed it is
\* never assigned again.
C18_HandleCreatedOnce ==
    /\ [](made.ec <= 1)
    /\ [][made.hb > 0 => event_center' = event_center]_vars

\* C18: the event-bus handle is assigned only by the event-bus step of
\* initialize(), at most once per run of initialize(); start(), stop(), the
\* interrupt handler and the scheduler never assign it, so an orchestrator
\* initialized once creates it at most once.
C18_HandleCreatedOncePerRun ==
    /\ [][event_center' # event_center
            => (InitEventCenter /\ Truthy(config.rabbitmq)
                  /\ event_center' # None /\ calls.ec = 0)]_vars
    /\ [](calls.ec <= 1)
    /\ [](initCalls <= 1 => made.ec <= 1)
    /\ [](event_center = made.ec)

\* C18 witness: after one initialize(), a start() and its stop, the handle
\* is still the one client that was created
C18_Witness ==
    /\ initCalls = 1 /\ result = "ok" /\ life = "stopped" /\ pc = "idle"
    /\ event_center = 1 /\ made.ec = 1 /\ stopCalls > 0

C20_HandleSetBeforeConnect ==
    /\ pc = "ec_connect"
          => (event_center # None /\ calls.connected = 0)
    /\ step["ec"] = "failed"
          => /\ event_center # None /\ result \in Errors
             /\ calls.connected = 0 /\ calls.phase2 = 0
    /\ (initCalls = 1 /\ event_center # None)
          => (LoadedThisRun /\ config.rabbitmq # Absent)
    /\ (initCalls = 1 /\ event_center # None /\ result = "ok")
          => (calls.connected = 1 /\ calls.phase2 = 1)

\* C20 witness: the connect of a first initialize() failed and the handle
\* is set although nothing is connected
C20_Witness ==
    /\ initCalls = 1 /\ pc = "idle" /\ result = "ConnectionError"
    /\ step["ec"] = "failed" /\ event_center = 1
    /\ calls.connected = 0 /\ calls.phase2 = 0 /\ made.phase2 = 0

====
